---- MODULE Spec2Model ----
(***************************************************************************)
(* A model of FrenchDeck (src/data_structures/card_deck.py): the deck       *)
(* built by __init__, the calls its special methods answer (len, integer    *)
(* and slice subscripts, membership, iteration, reversed iteration) and     *)
(* the spades_high ranking function.                                        *)
(*                                                                          *)
(* The built-in behaviour the class delegates to (list subscripts, the       *)
(* sequence-protocol iterators, list.index, dict lookup, max/min) is         *)
(* written out as operators, so that an exception is an outcome of a call    *)
(* and not something the model cannot express.                               *)
(***************************************************************************)
EXTENDS Integers, Sequences, FiniteSets, TLC

VARIABLES cards, result, traversals

vars == <<cards, result, traversals>>

(***************************************************************************)
(* Bounds of the model.                                                     *)
(***************************************************************************)
\* How far beyond the length of the deck subscripts are probed.
MaxOver == 2

\* Rank and suit symbols outside the fixed sets, for probing the ranking
\* function and the membership test ('15' and 'rockets' are fake_card's).
ExtraRanks == {"15"}
ExtraSuits == {"rockets"}

\* Two traversals may be alive at once: an older one and a newer one.
Traversals == {"t1", "t2"}

(***************************************************************************)
(* Card and the class attributes of FrenchDeck.                             *)
(***************************************************************************)
Card(rank, suit) == [rank |-> rank, suit |-> suit]

\* Mutant of ranks: range(2, 10), which leaves out '10'.
ranks_without_ten ==
    [i \in 1..(10 - 2) |-> ToString(i + 1)] \o <<"J", "Q", "K", "A">>

\* [str(n) for n in range(2, 11)] + list('JQKA')
ranks == [i \in 1..(11 - 2) |-> ToString(i + 1)] \o <<"J", "Q", "K", "A">>

\* 'spades diamonds clubs hearts'.split()
suits == <<"spades", "diamonds", "clubs", "hearts">>

\* Mutant of suit_values: the weights follow the order of the suits list.
suit_values_by_position ==
    [spades |-> 0, diamonds |-> 1, clubs |-> 2, hearts |-> 3]

\* dict(spades=3, hearts=2, diamonds=1, clubs=0)
suit_values == [spades |-> 3, hearts |-> 2, diamonds |-> 1, clubs |-> 0]

(***************************************************************************)
(* __init__: [Card(rank, suit) for suit in self.suits for rank in           *)
(* self.ranks], the suits in the outer loop and the ranks in the inner one. *)
(***************************************************************************)
CardsOfSuit(suit) == [i \in 1..Len(ranks) |-> Card(ranks[i], suit)]

RECURSIVE CardsOfSuits(_)
CardsOfSuits(k) ==
    IF k = 0 THEN <<>> ELSE CardsOfSuits(k - 1) \o CardsOfSuit(suits[k])

\* Mutant of FrenchDeckInit: the loops swapped, ranks outside and suits inside.
FrenchDeckInitRanksOuter ==
    [p \in 1..(Len(ranks) * Len(suits)) |->
        Card(ranks[((p - 1) \div Len(suits)) + 1],
             suits[((p - 1) % Len(suits)) + 1])]

FrenchDeckInit == CardsOfSuits(Len(suits))

(***************************************************************************)
(* The built-in list subscript, self._cards[position].                      *)
(***************************************************************************)
\* Mutant of NormIndex: negative indexes are not wrapped.
NormIndexNoWrap(i, n) == i

\* Mutant of NormIndex: a negative index wraps one element short.
NormIndexOffByOne(i, n) == IF i < 0 THEN i + n - 1 ELSE i

\* A negative index counts from the end.
NormIndex(i, n) == IF i < 0 THEN i + n ELSE i

\* lst[i] for an integer i: the element, or IndexError.
ListGetItem(lst, i) ==
    LET n == Len(lst)
        j == NormIndex(i, n)
    IN  IF j < 0 \/ j >= n
        THEN [status |-> "IndexError", items |-> <<>>]
        ELSE [status |-> "ok", items |-> <<lst[j + 1]>>]

\* An optional integer, as a slice's start and stop are: None or an int.
None == <<>>
Some(i) == <<i>>

\* One end of a slice adjusted to a list of n elements (step 1).
AdjustIndex(opt, n, default) ==
    IF opt = None THEN default
    ELSE LET i == opt[1]
             j == IF i < 0 THEN i + n ELSE i
         IN  IF j < 0 THEN 0 ELSE IF j > n THEN n ELSE j

\* Mutant of ListGetSlice: an end beyond the list raises as an index does.
ListGetSliceStrict(lst, start, stop) ==
    LET n == Len(lst)
        a == AdjustIndex(start, n, 0)
        b == AdjustIndex(stop, n, n)
        m == IF b > a THEN b - a ELSE 0
        Over(opt) == opt # None /\ opt[1] > n
    IN  IF Over(start) \/ Over(stop)
        THEN [status |-> "IndexError", items |-> <<>>]
        ELSE [status |-> "ok", items |-> [k \in 1..m |-> lst[a + k]]]

\* lst[start:stop]: a new list, never an error.
ListGetSlice(lst, start, stop) ==
    LET n == Len(lst)
        a == AdjustIndex(start, n, 0)
        b == AdjustIndex(stop, n, n)
        m == IF b > a THEN b - a ELSE 0
    IN  [status |-> "ok", items |-> [k \in 1..m |-> lst[a + k]]]

(***************************************************************************)
(* spades_high.                                                             *)
(***************************************************************************)
\* list.index(x): the zero-based position of the first x, or -1 for the
\* ValueError of a missing x.
RECURSIVE IndexFrom(_, _, _)
IndexFrom(lst, x, i) ==
    IF i > Len(lst) THEN -1
    ELSE IF lst[i] = x THEN i - 1
    ELSE IndexFrom(lst, x, i + 1)

Index(lst, x) == IndexFrom(lst, x, 1)

\* len(self.suit_values)
NumSuitValues == Cardinality(DOMAIN suit_values)

\* Mutant of RankingValue: the rank is not scaled by the number of suits.
RankingValueUnscaled(rank_value, suit_value) == rank_value + suit_value

\* The value of a card whose rank is at rank_value.
RankingValue(rank_value, suit_value) == rank_value * NumSuitValues + suit_value

\* Mutant of SpadesHigh: an unknown rank or suit counts as 0.
SpadesHighWithDefaults(card) ==
    LET found == Index(ranks, card.rank)
        rank_value == IF found < 0 THEN 0 ELSE found
        suit_value == IF card.suit \in DOMAIN suit_values
                      THEN suit_values[card.suit] ELSE 0
    IN  [status |-> "ok", number |-> RankingValue(rank_value, suit_value)]

\* spades_high(card): ranks.index raises first, then the dict lookup.
SpadesHigh(card) ==
    LET rank_value == Index(ranks, card.rank)
    IN  IF rank_value < 0
        THEN [status |-> "ValueError", number |-> 0]
        ELSE IF card.suit \notin DOMAIN suit_values
        THEN [status |-> "KeyError", number |-> 0]
        ELSE [status |-> "ok",
              number |-> RankingValue(rank_value, suit_values[card.suit])]

(***************************************************************************)
(* What the interpreter does with an object that has __getitem__ but        *)
(* neither __contains__ nor __iter__: it asks for positions 0, 1, 2, ...    *)
(* until IndexError.                                                        *)
(***************************************************************************)
\* card in deck
RECURSIVE ContainsFrom(_, _, _)
ContainsFrom(lst, card, i) ==
    LET r == ListGetItem(lst, i)
    IN  IF r.status = "IndexError" THEN FALSE
        ELSE IF r.items[1] = card THEN TRUE
        ELSE ContainsFrom(lst, card, i + 1)

\* The items a full traversal of lst yields, from position i on.
RECURSIVE ItemsFrom(_, _)
ItemsFrom(lst, i) ==
    LET r == ListGetItem(lst, i)
    IN  IF r.status = "IndexError" THEN <<>>
        ELSE r.items \o ItemsFrom(lst, i + 1)

\* max(deck, key=deck.spades_high) and min(...): the first item whose key
\* no other item's key exceeds (max) or undercuts (min).
Extreme(lst, wantMax) ==
    LET items == ItemsFrom(lst, 0)
        keys == [i \in 1..Len(items) |-> SpadesHigh(items[i]).number]
        Beats(x, y) == IF wantMax THEN x > y ELSE x < y
        first == CHOOSE i \in 1..Len(items) :
                    /\ \A j \in 1..Len(items) : ~Beats(keys[j], keys[i])
                    /\ \A j \in 1..(i - 1) : Beats(keys[i], keys[j])
    IN  [items |-> <<items[first]>>, number |-> keys[first]]

(***************************************************************************)
(* State.                                                                   *)
(*   cards       self._cards                                                *)
(*   result      the call a reader has made and its outcome, until the      *)
(*               reader takes it; "idle" between two calls                  *)
(*   traversals  the iterators readers hold on the deck                     *)
(***************************************************************************)
Blank ==
    [op |-> "idle", position |-> 0, start |-> None, stop |-> None,
     card |-> <<>>, status |-> "ok", items |-> <<>>, number |-> 0,
     truth |-> FALSE]

NoTraversal ==
    [kind |-> "none", index |-> 0, exhausted |-> FALSE, yielded |-> <<>>]

Init ==
    /\ cards = FrenchDeckInit
    /\ result = Blank
    /\ traversals = [t \in Traversals |-> NoTraversal]

(***************************************************************************)
(* The calls.  Each leaves the call and its outcome in result.              *)
(***************************************************************************)
Idle == result.op = "idle"

\* len(deck): __len__
LenCall ==
    /\ Idle
    /\ result' = [Blank EXCEPT !.op = "len", !.number = Len(cards)]
    /\ UNCHANGED <<cards, traversals>>

\* Mutant of GetItem: the card is taken out of the deck, as list.pop does.
GetItemPop(position) ==
    /\ Idle
    /\ LET r == ListGetItem(cards, position)
           j == NormIndex(position, Len(cards))
       IN  /\ result' = [Blank EXCEPT !.op = "getitem", !.position = position,
                                      !.status = r.status, !.items = r.items]
           /\ cards' = IF r.status = "ok"
                       THEN [k \in 1..(Len(cards) - 1) |->
                                IF k <= j THEN cards[k] ELSE cards[k + 1]]
                       ELSE cards
    /\ UNCHANGED traversals

\* deck[position], position an integer: __getitem__
GetItem(position) ==
    /\ Idle
    /\ LET r == ListGetItem(cards, position)
       IN  result' = [Blank EXCEPT !.op = "getitem", !.position = position,
                                   !.status = r.status, !.items = r.items]
    /\ UNCHANGED <<cards, traversals>>

\* deck[start:stop]: __getitem__ with a slice; the list built is a new one.
GetSlice(start, stop) ==
    /\ Idle
    /\ LET r == ListGetSlice(cards, start, stop)
       IN  result' = [Blank EXCEPT !.op = "getslice", !.start = start,
                                   !.stop = stop, !.status = r.status,
                                   !.items = r.items]
    /\ UNCHANGED <<cards, traversals>>

\* card in deck
Contains(card) ==
    /\ Idle
    /\ result' = [Blank EXCEPT !.op = "contains", !.card = <<card>>,
                               !.truth = ContainsFrom(cards, card, 0)]
    /\ UNCHANGED <<cards, traversals>>

\* deck.spades_high(card)
SpadesHighCall(card) ==
    /\ Idle
    /\ LET r == SpadesHigh(card)
       IN  result' = [Blank EXCEPT !.op = "spades_high", !.card = <<card>>,
                                   !.status = r.status, !.number = r.number]
    /\ UNCHANGED <<cards, traversals>>

\* max(deck, key=deck.spades_high)
MaxCall ==
    /\ Idle
    /\ LET best == Extreme(cards, TRUE)
       IN  result' = [Blank EXCEPT !.op = "max", !.items = best.items,
                                   !.number = best.number]
    /\ UNCHANGED <<cards, traversals>>

\* min(deck, key=deck.spades_high)
MinCall ==
    /\ Idle
    /\ LET best == Extreme(cards, FALSE)
       IN  result' = [Blank EXCEPT !.op = "min", !.items = best.items,
                                   !.number = best.number]
    /\ UNCHANGED <<cards, traversals>>

\* The caller takes the outcome (prints it, binds it, or sees the exception).
Return ==
    /\ ~Idle
    /\ result' = Blank
    /\ UNCHANGED <<cards, traversals>>

(***************************************************************************)
(* Traversals.  iter(deck) is the sequence iterator: it holds an index      *)
(* that starts at 0.  reversed(deck) holds an index that starts at          *)
(* len(deck) - 1.  Either ends, for good, on the first IndexError, which    *)
(* it clears.                                                               *)
(***************************************************************************)
\* Mutant of Iter: the cursor is shared with the traversal already there.
IterSharedCursor(t) ==
    /\ LET other == CHOOSE u \in Traversals : u # t
       IN  traversals' = [traversals EXCEPT ![t] =
               [kind |-> "iter", index |-> traversals[other].index,
                exhausted |-> FALSE, yielded |-> <<>>]]
    /\ UNCHANGED <<cards, result>>

\* for card in deck: a new iterator
Iter(t) ==
    /\ traversals' = [traversals EXCEPT ![t] =
            [kind |-> "iter", index |-> 0, exhausted |-> FALSE,
             yielded |-> <<>>]]
    /\ UNCHANGED <<cards, result>>

\* for card in reversed(deck): a new reverse iterator
Reversed(t) ==
    /\ traversals' = [traversals EXCEPT ![t] =
            [kind |-> "reversed", index |-> Len(cards) - 1,
             exhausted |-> FALSE, yielded |-> <<>>]]
    /\ UNCHANGED <<cards, result>>

\* next() on the sequence iterator
NextForward(t) ==
    /\ traversals[t].kind = "iter"
    /\ LET it == traversals[t]
           r == ListGetItem(cards, it.index)
       IN  traversals' = [traversals EXCEPT ![t] =
               IF it.exhausted THEN it
               ELSE IF r.status = "ok"
               THEN [it EXCEPT !.index = it.index + 1,
                               !.yielded = Append(it.yielded, r.items[1])]
               ELSE [it EXCEPT !.exhausted = TRUE]]
    /\ UNCHANGED <<cards, result>>

\* next() on the reverse iterator
NextReversed(t) ==
    /\ traversals[t].kind = "reversed"
    /\ LET it == traversals[t]
           r == ListGetItem(cards, it.index)
       IN  traversals' = [traversals EXCEPT ![t] =
               IF it.exhausted THEN it
               ELSE IF it.index >= 0 /\ r.status = "ok"
               THEN [it EXCEPT !.index = it.index - 1,
                               !.yielded = Append(it.yielded, r.items[1])]
               ELSE [it EXCEPT !.index = -1, !.exhausted = TRUE]]
    /\ UNCHANGED <<cards, result>>

(***************************************************************************)
(* Inputs.                                                                  *)
(***************************************************************************)
\* Integer subscripts from beyond the front to beyond the back.
Positions == (0 - (Len(FrenchDeckInit) + MaxOver))..(Len(FrenchDeckInit) + MaxOver)

\* Non-negative slice ends, up to beyond the back.
SliceEnds == 0..(Len(FrenchDeckInit) + MaxOver)

\* Cards of the fixed sets and cards with a foreign rank, suit or both.
ProbeRanks == {ranks[i] : i \in 1..Len(ranks)} \cup ExtraRanks
ProbeSuits == {suits[i] : i \in 1..Len(suits)} \cup ExtraSuits
ProbeCards == {Card(r, s) : r \in ProbeRanks, s \in ProbeSuits}

\* The subscripts, slices and cards of the demonstration, and the first
\* position beyond each end.
DemoPositions == {0, -1, Len(FrenchDeckInit), 0 - Len(FrenchDeckInit) - 1}
DemoSlices == {<<Some(5), Some(8)>>, <<None, Some(3)>>, <<Some(-3), None>>}
DemoMembers == {Card("A", "spades"), Card("K", "hearts"), Card("15", "rockets")}
DemoRanked == {Card("2", "clubs"), Card("2", "spades"),
               Card("A", "clubs"), Card("A", "spades"), Card("15", "rockets")}

(***************************************************************************)
(* Specifications.                                                          *)
(*   SpecAccess  one reader, every call over the bounded inputs             *)
(*   SpecIter    the traversals alone                                       *)
(*   Spec        every operation interleaved, on the demonstration's inputs *)
(***************************************************************************)
NextAccess ==
    \/ LenCall
    \/ \E position \in Positions : GetItem(position)
    \/ \E start \in SliceEnds, stop \in SliceEnds : GetSlice(Some(start), Some(stop))
    \/ \E card \in ProbeCards : Contains(card)
    \/ \E card \in ProbeCards : SpadesHighCall(card)
    \/ MaxCall
    \/ MinCall
    \/ Return

NextIter ==
    \E t \in Traversals :
        \/ Iter(t)
        \/ Reversed(t)
        \/ NextForward(t)
        \/ NextReversed(t)

Next ==
    \/ LenCall
    \/ \E position \in DemoPositions : GetItem(position)
    \/ \E sl \in DemoSlices : GetSlice(sl[1], sl[2])
    \/ \E card \in DemoMembers : Contains(card)
    \/ \E card \in DemoRanked : SpadesHighCall(card)
    \/ Return
    \/ NextIter

SpecAccess == Init /\ [][NextAccess]_vars

SpecIter == Init /\ [][NextIter]_vars

Spec == Init /\ [][Next]_vars

(***************************************************************************)
(* The documented contract, in its own terms: the 13 ranks and 4 suits in   *)
(* their documented order, the documented suit weights, and at(p) as a      *)
(* reader sees it.                                                          *)
(***************************************************************************)
RankOrder ==
    <<"2", "3", "4", "5", "6", "7", "8", "9", "10", "J", "Q", "K", "A">>

SuitOrder == <<"spades", "diamonds", "clubs", "hearts">>

SuitWeight == [spades |-> 3, hearts |-> 2, diamonds |-> 1, clubs |-> 0]

RankSet == {RankOrder[i] : i \in 1..13}

SuitSet == {SuitOrder[i] : i \in 1..4}

StandardCards == {Card(r, s) : r \in RankSet, s \in SuitSet}

RankPos(r) == (CHOOSE i \in 1..13 : RankOrder[i] = r) - 1

At(p) == ListGetItem(cards, p)

Abs(i) == IF i < 0 THEN 0 - i ELSE i

Min2(a, b) == IF a < b THEN a ELSE b

Reverse(seq) == [k \in 1..Len(seq) |-> seq[Len(seq) - k + 1]]

(***************************************************************************)
(* C1: a freshly constructed deck has size 52 and holds every one of the    *)
(* 13 x 4 (rank, suit) combinations exactly once over positions 0..51: no   *)
(* two distinct positions hold equal cards and no combination is missing.   *)
(***************************************************************************)
C1_FreshDeckComplete ==
    /\ Len(cards) = 52
    /\ result.op = "len" => result.number = 52
    /\ \A p \in 0..51 : At(p).status = "ok"
    /\ LET held == {At(p).items : p \in 0..51}
       IN  \* 52 positions, 52 different cards: no two positions are equal
           /\ Cardinality(held) = 52
           \* and they are the 13 x 4 combinations: none is missing
           /\ held = {<<c>> : c \in StandardCards}

C1_Witness == result.op = "len" /\ result.number = 52

(***************************************************************************)
(* C2: the order is suits outside, ranks inside: at(p) is the card of rank  *)
(* rank_order[p mod 13] and suit suit_order[p div 13] for every p in        *)
(* 0..51; so at(0) = (2, spades), at(12) = (A, spades), at(13) =            *)
(* (2, diamonds) and at(51) = (A, hearts).                                  *)
(***************************************************************************)
C2_ConstructionOrder ==
    /\ \A p \in 0..51 :
            At(p).items = <<Card(RankOrder[(p % 13) + 1],
                                 SuitOrder[(p \div 13) + 1])>>
    /\ (result.op = "getitem" /\ result.position \in 0..51) =>
            result.items = <<Card(RankOrder[(result.position % 13) + 1],
                                  SuitOrder[(result.position \div 13) + 1])>>
    /\ (result.op = "getitem" /\ result.position = 0) =>
            result.items = <<Card("2", "spades")>>
    /\ (result.op = "getitem" /\ result.position = 12) =>
            result.items = <<Card("A", "spades")>>
    /\ (result.op = "getitem" /\ result.position = 13) =>
            result.items = <<Card("2", "diamonds")>>
    /\ (result.op = "getitem" /\ result.position = 51) =>
            result.items = <<Card("A", "hearts")>>

C2_Witness ==
    /\ result.op = "getitem"
    /\ result.position = 13
    /\ result.items = <<Card("2", "diamonds")>>

(***************************************************************************)
(* C3, as claimed: at(position) fails with an out-of-range error exactly    *)
(* when |position| exceeds 52, and returns a card whenever |position| <= 52.*)
(***************************************************************************)
C3_FailsExactlyBeyondLength ==
    result.op = "getitem" =>
        /\ result.status = "IndexError" <=> Abs(result.position) > 52
        /\ Abs(result.position) <= 52 =>
                (result.status = "ok" /\ Len(result.items) = 1)

(***************************************************************************)
(* C3, amended: at(position) fails with an out-of-range error exactly when  *)
(* position >= 52 or position < -52, and returns one card of the deck for   *)
(* every position in -52..51; the failure is the call's outcome and the     *)
(* deck is as it was.                                                       *)
(***************************************************************************)
C3_FailsExactlyOutsideRange ==
    result.op = "getitem" =>
        /\ result.status \in {"ok", "IndexError"}
        /\ result.status = "IndexError" <=>
                (result.position >= 52 \/ result.position < -52)
        /\ result.status = "IndexError" => result.items = <<>>
        /\ result.status = "ok" =>
                (Len(result.items) = 1 /\ result.items[1] \in StandardCards)
        /\ cards = FrenchDeckInit

C3_Witness ==
    /\ result.op = "getitem"
    /\ result.position = 52
    /\ result.status = "IndexError"

(***************************************************************************)
(* C4: rankValue(card) = index_of(rank, rank_order) * 4 + suit_weight(suit) *)
(* with weights spades 3, hearts 2, diamonds 1, clubs 0, for every card of  *)
(* the 52; it is 0 for (2, clubs), 3 for (2, spades), 48 for (A, clubs) and *)
(* 51 for (A, spades); (A, spades) is the card of maximum and (2, clubs)    *)
(* the card of minimum rankValue over the deck.                             *)
(***************************************************************************)
C4_RankValueFormula ==
    /\ (result.op = "spades_high" /\ result.card[1] \in StandardCards) =>
            /\ result.status = "ok"
            /\ result.number = RankPos(result.card[1].rank) * 4
                                + SuitWeight[result.card[1].suit]
    /\ (result.op = "spades_high" /\ result.card = <<Card("2", "clubs")>>) =>
            result.number = 0
    /\ (result.op = "spades_high" /\ result.card = <<Card("2", "spades")>>) =>
            result.number = 3
    /\ (result.op = "spades_high" /\ result.card = <<Card("A", "clubs")>>) =>
            result.number = 48
    /\ (result.op = "spades_high" /\ result.card = <<Card("A", "spades")>>) =>
            result.number = 51
    /\ result.op = "max" =>
            (result.items = <<Card("A", "spades")>> /\ result.number = 51)
    /\ result.op = "min" =>
            (result.items = <<Card("2", "clubs")>> /\ result.number = 0)
    /\ result.op \in {"max", "min"} =>
            \A p \in 1..Len(cards) :
                LET v == SpadesHigh(cards[p])
                IN  /\ v.status = "ok"
                    /\ IF result.op = "max"
                       THEN v.number <= result.number
                       ELSE v.number >= result.number
                    /\ v.number = result.number => <<cards[p]>> = result.items

C4_Witness ==
    /\ result.op = "spades_high"
    /\ result.card = <<Card("A", "spades")>>
    /\ result.status = "ok"
    /\ result.number = 51

(***************************************************************************)
(* C5: rankValue is a strict total order on the 52 cards, rank the major    *)
(* key and suit the minor key: distinct cards get distinct values, the      *)
(* values are exactly 0..51, a card of a lower rank has a smaller value     *)
(* than any card of a higher rank, and within one rank                      *)
(* clubs < diamonds < hearts < spades.                                      *)
(***************************************************************************)
C5_StrictTotalOrder ==
    LET value == [p \in 1..Len(cards) |-> SpadesHigh(cards[p]).number]
        SuitRank == [clubs |-> 0, diamonds |-> 1, hearts |-> 2, spades |-> 3]
    IN  /\ Len(cards) = 52
        /\ {value[p] : p \in 1..52} = 0..51
        /\ (result.op = "spades_high" /\ result.card[1] \in StandardCards) =>
                LET c == result.card[1]
                IN  \A p \in 1..52 :
                        LET d == cards[p]
                        IN  /\ d # c => value[p] # result.number
                            /\ d = c => value[p] = result.number
                            /\ RankPos(d.rank) < RankPos(c.rank) =>
                                    value[p] < result.number
                            /\ RankPos(d.rank) > RankPos(c.rank) =>
                                    value[p] > result.number
                            /\ (d.rank = c.rank
                                    /\ SuitRank[d.suit] < SuitRank[c.suit]) =>
                                    value[p] < result.number

C5_Witness ==
    /\ result.op = "spades_high"
    /\ result.card = <<Card("10", "hearts")>>
    /\ result.status = "ok"
    /\ result.number = 34

(***************************************************************************)
(* C6: rankValue(card) fails, and returns no integer, whenever the rank is  *)
(* not one of the 13 ranks or the suit is not one of the 4 suits, also      *)
(* when only one of the two is foreign; there is no silent default.         *)
(***************************************************************************)
C6_ForeignCardFails ==
    (result.op = "spades_high" /\ result.card[1] \notin StandardCards) =>
        /\ result.status \in {"ValueError", "KeyError"}
        /\ result.card[1].rank \notin RankSet => result.status = "ValueError"
        /\ (result.card[1].rank \in RankSet
                /\ result.card[1].suit \notin SuitSet) =>
                result.status = "KeyError"

C6_Witness ==
    /\ result.op = "spades_high"
    /\ result.card = <<Card("A", "rockets")>>
    /\ result.status = "KeyError"

(***************************************************************************)
(* C7: for non-negative start and stop, slice(start, stop) never fails and  *)
(* is [at(i) : start <= i < min(stop, 52)], empty when start >= stop or     *)
(* start >= 52; ends beyond the length are clamped.  slice(5, 8) is         *)
(* [at(5), at(6), at(7)].                                                   *)
(***************************************************************************)
C7_SliceClamped ==
    (/\ result.op = "getslice"
     /\ result.start # None /\ result.stop # None
     /\ result.start[1] >= 0 /\ result.stop[1] >= 0) =>
        LET start == result.start[1]
            stop == result.stop[1]
            upto == Min2(stop, 52)
            size == IF upto > start THEN upto - start ELSE 0
        IN  /\ result.status = "ok"
            /\ Len(result.items) = size
            /\ \A k \in 1..size : <<result.items[k]>> = At(start + k - 1).items
            /\ (start >= stop \/ start >= 52) => result.items = <<>>
            /\ (start = 5 /\ stop = 8) =>
                    result.items = At(5).items \o At(6).items \o At(7).items

C7_Witness ==
    /\ result.op = "getslice"
    /\ result.start = Some(50)
    /\ result.stop = Some(54)
    /\ result.status = "ok"
    /\ result.items = At(50).items \o At(51).items

(***************************************************************************)
(* C8: a forward traversal asks for positions 0, 1, 2, ... and ends on the  *)
(* first out-of-range failure, which it absorbs: it has then yielded        *)
(* exactly at(0), ..., at(51), in that order.  Every new traversal starts   *)
(* at position 0 whatever other traversals have consumed.  A reverse        *)
(* traversal yields at(51) down to at(0), the reverse of the forward one.   *)
(***************************************************************************)
C8_TraversalsYieldTheDeck ==
    \A t \in Traversals :
        LET it == traversals[t]
            n == Len(it.yielded)
        IN  /\ it.kind = "iter" =>
                /\ it.index = n
                /\ n <= 52
                /\ \A k \in 1..n : <<it.yielded[k]>> = At(k - 1).items
                /\ it.exhausted => n = 52
                /\ n = 52 => At(it.index).status = "IndexError"
            /\ it.kind = "reversed" =>
                /\ n <= 52
                /\ \A k \in 1..n : <<it.yielded[k]>> = At(52 - k).items
                /\ ~it.exhausted => it.index = 51 - n
                /\ it.exhausted =>
                        (n = 52 /\ it.yielded = Reverse(ItemsFrom(cards, 0)))

C8_Witness ==
    /\ traversals["t1"].kind = "iter"
    /\ traversals["t1"].exhausted
    /\ Len(traversals["t1"].yielded) = 52
    /\ traversals["t2"].kind = "reversed"
    /\ traversals["t2"].exhausted
    /\ traversals["t2"].yielded = Reverse(traversals["t1"].yielded)

C10_NegativeFromEnd ==
    (result.op = "getitem" /\ 0 - result.position \in 1..52) =>
        /\ result.status = "ok"
        /\ result.items = <<cards[52 + result.position + 1]>>
        /\ result.position = -1 => result.items = <<Card("A", "hearts")>>
        /\ result.position = -52 => result.items = <<Card("2", "spades")>>

C10_Witness ==
    /\ result.op = "getitem"
    /\ result.position = -52
    /\ result.items = <<Card("2", "spades")>>

====
